---- MODULE Spec2Model ----
(***************************************************************************)
(* Warm-starting of estimator variables from a checkpoint                  *)
(* (tensorflow/python/estimator/warm_starting_util.py).                    *)
(*                                                                         *)
(* Matrices have one column, so a matrix is a sequence of row values.      *)
(* A variable of the graph is a record: its own name (vname), the name of  *)
(* the logical (full) variable it belongs to (name), its row offset, its   *)
(* row count, the row count of the full variable and whether it carries    *)
(* save-slice information.  Variables are referred to by their position    *)
(* in the collection.                                                      *)
(* Python's None is the string "None" (NoneVocabInfo where a _VocabInfo is *)
(* expected); a dict is a function; an absent dict argument is the empty   *)
(* function.                                                               *)
(***************************************************************************)
EXTENDS Integers, Sequences, FiniteSets

VARIABLES
  pc,        \* position of the caller: what has been called and how it ended
  files,     \* vocabulary files: path -> sequence of tokens (line order)
  ckpt,      \* checkpoint: tensor name -> matrix (sequence of row values)
  graph,     \* TRAINABLE_VARIABLES: the collection, a sequence of variables
  settings,  \* the _WarmStartSettings in use
  grouped,   \* grouped_variables of _warmstart: logical name -> slices
  todo,      \* logical names the loop of _warmstart has not reached yet
  initval,   \* per variable of graph: [mode, val], its current initializer
  nsets,     \* per variable of graph: times its initializer was replaced
  err,       \* the exception that ended the call: [type, var]
  log,       \* logging.info lines emitted, in order
  call       \* arguments of the direct call made (binder specifications)

vars == <<pc, files, ckpt, graph, settings, grouped, todo, initval, nsets, err, log, call>>

---------------------------------------------------------------------------
(* Bounds of the model *)

\* Longest vocabulary file drawn for the remapping specification.
MaxVocabLen == 3
\* Largest number of out-of-vocabulary buckets drawn.
MaxOov == 1

\* Tokens of the drawn old vocabularies, and of the drawn new ones.
OldTokens == {"a", "b"}
NewTokens == {"a", "b", "c"}

\* Checkpoint locations that hold a checkpoint.
CkptDirs == {"ckpt"}

---------------------------------------------------------------------------
(* Python values *)

NoneVal == "None"

\* Truth value of a str-or-None (`if not x`).
Truthy(x) == x \notin {NoneVal, ""}

\* Default of _VocabInfo.old_vocab_size and of previous_vocab_size.
DefaultOldVocabSize == -1

NoErr == [type |-> "None", var |-> ""]

DefaultInit == [mode |-> "default", val |-> << >>]

Min(a, b) == IF a < b THEN a ELSE b

RECURSIVE Concat(_)
Concat(seqs) == IF seqs = << >> THEN << >> ELSE Head(seqs) \o Concat(Tail(seqs))

---------------------------------------------------------------------------
(* _VocabInfo and _WarmStartSettings *)

VocabInfo(new_vocab, new_vocab_size, num_oov_buckets, old_vocab, old_vocab_size, backup_initializer) ==
  [new_vocab |-> new_vocab, new_vocab_size |-> new_vocab_size,
   num_oov_buckets |-> num_oov_buckets, old_vocab |-> old_vocab,
   old_vocab_size |-> old_vocab_size, backup_initializer |-> backup_initializer]

NoSettings ==
  [ckpt_to_initialize_from |-> "", vars_to_warmstart |-> NoneVal,
   var_name_to_vocab_info |-> << >>, var_name_to_prev_var_name |-> << >>]

\* _WarmStartSettings.__new__: rejects a falsy checkpoint, keeps the rest.
NewWarmStartSettings(ckpt_to_initialize_from, vars_to_warmstart, var_name_to_vocab_info, var_name_to_prev_var_name) ==
  IF ~Truthy(ckpt_to_initialize_from)
  THEN [err |-> "ValueError", value |-> NoSettings]
  ELSE [err |-> "None",
        value |-> [ckpt_to_initialize_from |-> ckpt_to_initialize_from,
                   vars_to_warmstart |-> vars_to_warmstart,
                   var_name_to_vocab_info |-> var_name_to_vocab_info,
                   var_name_to_prev_var_name |-> var_name_to_prev_var_name]]

\* dict.get(key): the value, or None when the key is absent.
GetPrevName(s, var_name) ==
  IF var_name \in DOMAIN s.var_name_to_prev_var_name
  THEN s.var_name_to_prev_var_name[var_name] ELSE NoneVal

\* A None stored as a value of var_name_to_vocab_info.
NoneVocabInfo == [none |-> TRUE]

\* vocab_info = var_name_to_vocab_info.get(var_name): the value, or None
\* when the key is absent.
GetVocabInfo(s, var_name) ==
  IF var_name \in DOMAIN s.var_name_to_vocab_info
  THEN s.var_name_to_vocab_info[var_name] ELSE NoneVocabInfo

\* `if vocab_info:` a _VocabInfo (a non-empty tuple) is true, None is not.
HasVocabInfo(s, var_name) == GetVocabInfo(s, var_name) # NoneVocabInfo

---------------------------------------------------------------------------
(* Vocabulary index, remap plan and matrix initializer                     *)
(* (checkpoint_ops._load_and_remap_matrix_initializer)                     *)

\* load(path, size_cap): the file's tokens in order, the first size_cap of
\* them, or all of them when size_cap is -1.
LoadVocab(path, size_cap) ==
  IF size_cap = -1 THEN files[path]
  ELSE SubSeq(files[path], 1, Min(size_cap, Len(files[path])))

\* Position (from 0) of the first occurrence of token at or after i, or -1.
RECURSIVE FirstIndex(_, _, _)
FirstIndex(index, token, i) ==
  IF i > Len(index) THEN -1
  ELSE IF index[i] = token THEN i - 1
  ELSE FirstIndex(index, token, i + 1)

\* build_plan: one entry per new row; an old row index, or -1 for "backup".
BuildPlan(old_index, new_index, new_size, num_oov_buckets) ==
  [j \in 1..(new_size + num_oov_buckets) |->
     IF j <= new_size /\ j <= Len(new_index)
     THEN FirstIndex(old_index, new_index[j], 1)
     ELSE -1]

\* Output of the backup initializer for one row; zeros when there is none.
BackupRow(backup_fn) == IF backup_fn = NoneVal THEN 0 ELSE 7

\* materialize: the rows of the window [window_start, window_end) of the plan.
Materialize(plan, old_matrix, backup_fn, window_start, window_end) ==
  [k \in 1..(window_end - window_start) |->
     IF plan[window_start + k] >= 0
     THEN old_matrix[plan[window_start + k] + 1]
     ELSE BackupRow(backup_fn)]

\* The initializer built for one variable and called with its shape and
\* partition offset: [err, val].  The variable's rows lie within the plan
\* and the old vocabulary within the old matrix (the shapes of a model and
\* of its checkpoint follow from their vocabularies).
LoadAndRemapMatrix(a, rows, offset) ==
  LET old_index == LoadVocab(a.old_row_vocab_file, a.old_row_vocab_size)
      new_index == LoadVocab(a.new_row_vocab_file, a.new_row_vocab_size)
      plan == BuildPlan(old_index, new_index, a.new_row_vocab_size,
                        a.num_row_oov_buckets)
  IN  IF a.ckpt_path \notin CkptDirs \/ a.old_tensor_name \notin DOMAIN ckpt
      THEN [err |-> "NotFoundError", val |-> << >>]
      ELSE [err |-> "None",
            val |-> Materialize(plan, ckpt[a.old_tensor_name], a.initializer,
                                offset, offset + rows)]

---------------------------------------------------------------------------
(* Binder: _infer_var_name, _warmstart_var, _warmstart_var_with_vocab      *)
(*                                                                         *)
(* A `var` argument is [kind, slices]: kind is "Variable", "list",         *)
(* "PartitionedVariable" or "other" (anything else), slices the positions  *)
(* in graph of the variable(s) it holds.  The operators take and return    *)
(* st = [initval, nsets, err].                                             *)

Raise(st, type) == [st EXCEPT !.err = [type |-> type, var |-> ""]]

\* v._initializer_op = ... : replaces the initializer of variable v.
Assign(st, v, mode, val) ==
  [st EXCEPT !.initval[v] = [mode |-> mode, val |-> val], !.nsets[v] = @ + 1]

\* _infer_var_name: the one logical name of the variables, or a TypeError.
InferVarName(slices) ==
  LET names == {graph[slices[i]].name : i \in 1..Len(slices)}
  IN  IF Cardinality(names) > 1
      THEN [err |-> "TypeError", name |-> ""]
      ELSE [err |-> "None", name |-> CHOOSE n \in names : TRUE]

\* checkpoint_utils.init_from_checkpoint(prev_ckpt, {tensor_name: var}):
\* plain restore of a whole tensor, shapes matching exactly.
InitFromCheckpoint(st, prev_ckpt, tensor_name, var) ==
  LET RECURSIVE SetAll(_, _)
      SetAll(s, i) ==
        IF i > Len(var.slices) THEN s
        ELSE LET v == var.slices[i]
             IN  SetAll(Assign(s, v, "restore",
                               SubSeq(ckpt[tensor_name], graph[v].offset + 1,
                                      graph[v].offset + graph[v].rows)),
                        i + 1)
  IN  IF prev_ckpt \notin CkptDirs \/ tensor_name \notin DOMAIN ckpt
      THEN Raise(st, "NotFoundError")
      ELSE IF \/ /\ var.kind = "Variable"
                 /\ graph[var.slices[1]].rows # Len(ckpt[tensor_name])
              \/ /\ var.kind # "Variable"
                 /\ \E i \in 1..Len(var.slices) :
                      graph[var.slices[i]].full_rows # Len(ckpt[tensor_name])
      THEN Raise(st, "ShapeMismatchError")
      ELSE SetAll(st, 1)

\* _warmstart_var
WarmstartVar(st, var, prev_ckpt, prev_tensor_name) ==
  IF var.kind \notin {"Variable", "list", "PartitionedVariable"}
  THEN Raise(st, "TypeError")
  ELSE LET inferred == IF var.kind = "PartitionedVariable"
                       THEN [err |-> "None", name |-> graph[var.slices[1]].name]
                       ELSE InferVarName(var.slices)
       IN  IF inferred.err # "None" THEN Raise(st, inferred.err)
           ELSE InitFromCheckpoint(
                  st, prev_ckpt,
                  IF ~Truthy(prev_tensor_name) THEN inferred.name
                  ELSE prev_tensor_name,
                  var)

\* Mutant of SliceInitValue: the backup initializer is not passed on.
SliceInitValue_DropsInitializer(v, a) ==
  LoadAndRemapMatrix(
    [ckpt_path |-> a.prev_ckpt,
     old_tensor_name |-> a.prev_tensor_name,
     new_row_vocab_size |-> a.current_vocab_size,
     old_row_vocab_size |-> a.previous_vocab_size,
     old_row_vocab_file |-> a.prev_vocab_path,
     new_row_vocab_file |-> a.current_vocab_path,
     num_row_oov_buckets |-> a.current_oov_buckets,
     initializer |-> NoneVal],
    graph[v].rows,
    IF graph[v].sliced THEN graph[v].offset ELSE 0)

\* Mutant of SliceInitValue: previous_vocab_size is not passed on.
SliceInitValue_IgnoresOldSize(v, a) ==
  LoadAndRemapMatrix(
    [ckpt_path |-> a.prev_ckpt,
     old_tensor_name |-> a.prev_tensor_name,
     new_row_vocab_size |-> a.current_vocab_size,
     old_row_vocab_size |-> DefaultOldVocabSize,
     old_row_vocab_file |-> a.prev_vocab_path,
     new_row_vocab_file |-> a.current_vocab_path,
     num_row_oov_buckets |-> a.current_oov_buckets,
     initializer |-> a.initializer],
    graph[v].rows,
    IF graph[v].sliced THEN graph[v].offset ELSE 0)

\* Mutant of SliceInitValue: partition_info is left at None.
SliceInitValue_NoPartitionInfo(v, a) ==
  LoadAndRemapMatrix(
    [ckpt_path |-> a.prev_ckpt,
     old_tensor_name |-> a.prev_tensor_name,
     new_row_vocab_size |-> a.current_vocab_size,
     old_row_vocab_size |-> a.previous_vocab_size,
     old_row_vocab_file |-> a.prev_vocab_path,
     new_row_vocab_file |-> a.current_vocab_path,
     num_row_oov_buckets |-> a.current_oov_buckets,
     initializer |-> a.initializer],
    graph[v].rows,
    0)

\* Body of the loop of _warmstart_var_with_vocab up to new_init_val: the
\* initial value of variable v, [err, val].  a holds the arguments of
\* _warmstart_var_with_vocab, prev_tensor_name already resolved.
SliceInitValue(v, a) ==
  LoadAndRemapMatrix(
    [ckpt_path |-> a.prev_ckpt,
     old_tensor_name |-> a.prev_tensor_name,
     new_row_vocab_size |-> a.current_vocab_size,
     old_row_vocab_size |-> a.previous_vocab_size,
     old_row_vocab_file |-> a.prev_vocab_path,
     new_row_vocab_file |-> a.current_vocab_path,
     num_row_oov_buckets |-> a.current_oov_buckets,
     initializer |-> a.initializer],
    graph[v].rows,
    IF graph[v].sliced THEN graph[v].offset ELSE 0)

\* The loop `for v in var` of _warmstart_var_with_vocab from position i on:
\* an exception leaves the variables before v assigned.
RECURSIVE AssignSlices(_, _, _, _)
AssignSlices(st, slices, i, a) ==
  IF i > Len(slices) THEN st
  ELSE LET r == SliceInitValue(slices[i], a)
       IN  IF r.err # "None" THEN Raise(st, r.err)
           ELSE AssignSlices(Assign(st, slices[i], "remap", r.val), slices, i + 1, a)

\* Mutant of WarmstartVarWithVocab: prev_ckpt is missing from the check of
\* the required arguments.
WarmstartVarWithVocab_NoCkptCheck(st, var, a) ==
  IF ~(/\ Truthy(a.current_vocab_path)
       /\ a.current_vocab_size # 0
       /\ Truthy(a.prev_vocab_path))
  THEN Raise(st, "ValueError")
  ELSE IF var.kind \notin {"Variable", "list", "PartitionedVariable"}
  THEN Raise(st, "TypeError")
  ELSE LET inferred == IF ~Truthy(a.prev_tensor_name)
                       THEN InferVarName(var.slices)
                       ELSE [err |-> "None", name |-> a.prev_tensor_name]
       IN  IF inferred.err # "None" THEN Raise(st, inferred.err)
           ELSE AssignSlices(st, var.slices, 1,
                             [a EXCEPT !.prev_tensor_name = inferred.name])

\* _warmstart_var_with_vocab; a holds its arguments after `var`.
WarmstartVarWithVocab(st, var, a) ==
  IF ~(/\ Truthy(a.current_vocab_path)
       /\ a.current_vocab_size # 0
       /\ Truthy(a.prev_ckpt)
       /\ Truthy(a.prev_vocab_path))
  THEN Raise(st, "ValueError")
  ELSE IF var.kind \notin {"Variable", "list", "PartitionedVariable"}
  THEN Raise(st, "TypeError")
  ELSE LET inferred == IF ~Truthy(a.prev_tensor_name)
                       THEN InferVarName(var.slices)
                       ELSE [err |-> "None", name |-> a.prev_tensor_name]
       IN  IF inferred.err # "None" THEN Raise(st, inferred.err)
           ELSE AssignSlices(st, var.slices, 1,
                             [a EXCEPT !.prev_tensor_name = inferred.name])

\* The arguments of _warmstart_var_with_vocab after `var`.
VocabArgs(current_vocab_path, current_vocab_size, prev_ckpt, prev_vocab_path, previous_vocab_size, current_oov_buckets, prev_tensor_name, initializer) ==
  [current_vocab_path |-> current_vocab_path,
   current_vocab_size |-> current_vocab_size,
   prev_ckpt |-> prev_ckpt,
   prev_vocab_path |-> prev_vocab_path,
   previous_vocab_size |-> previous_vocab_size,
   current_oov_buckets |-> current_oov_buckets,
   prev_tensor_name |-> prev_tensor_name,
   initializer |-> initializer]

---------------------------------------------------------------------------
(* Orchestrator: _warmstart *)

\* re.match(pattern, name) for the patterns drawn: ".*" and "" match every
\* name, any other pattern is a literal that must start the name.
RegexMatch(pattern, v) ==
  pattern \in {".*", "", graph[v].vname, graph[v].name}

\* Mutant of GetCollection: a scope of None matches nothing.
GetCollection_NoneMatchesNothing(scope) ==
  {v \in 1..Len(graph) : scope # NoneVal /\ RegexMatch(scope, v)}

\* ops.get_collection(TRAINABLE_VARIABLES, scope): a scope of None returns
\* the whole collection, a pattern the variables whose name it matches.
GetCollection(scope) ==
  {v \in 1..Len(graph) : scope = NoneVal \/ RegexMatch(scope, v)}

\* The elements of a set of positions, ascending (collection order).
RECURSIVE Ascending(_)
Ascending(S) ==
  IF S = {} THEN << >>
  ELSE LET m == CHOOSE x \in S : \A y \in S : x <= y
       IN  <<m>> \o Ascending(S \ {m})

\* The first loop of _warmstart: grouped_variables.
GroupedVariables(scope) ==
  LET coll == GetCollection(scope)
  IN  [n \in {graph[v].name : v \in coll} |->
         Ascending({v \in coll : graph[v].name = n})]

\* `if vocab_info:`
TakesVocabBranch(s, var_name) == HasVocabInfo(s, var_name)

\* Mutant of TakesPlainBranch: the None sentinel is not looked at.
TakesPlainBranch_IgnoresSentinel(s, var_name) == ~TakesVocabBranch(s, var_name)

\* Mutant of TakesPlainBranch: an `if` in place of the `else`.
TakesPlainBranch_FallsThrough(s, var_name) == Truthy(s.vars_to_warmstart)

\* `else: if warmstart_settings.vars_to_warmstart:`
TakesPlainBranch(s, var_name) ==
  ~TakesVocabBranch(s, var_name) /\ Truthy(s.vars_to_warmstart)

\* Mutant of Logged: the line is written after the call returns.
Logged_AfterCall(lg, line, after) ==
  IF after.err.type = "None" THEN Append(lg, line) ELSE lg

\* logging.info(...) precedes the call it announces: the line is in the log
\* whether or not the call raised.
Logged(lg, line, after) == Append(lg, line)

\* One iteration of the second loop of _warmstart, for var_name:
\* [initval, nsets, err, log] after it.
WarmstartIteration(s, var_name, variable, st, lg) ==
  LET prev_var_name == GetPrevName(s, var_name)
      shown == IF Truthy(prev_var_name) THEN prev_var_name ELSE "Unchanged"
      vi == GetVocabInfo(s, var_name)
      st1 == IF TakesVocabBranch(s, var_name)
             THEN WarmstartVarWithVocab(
                    st, [kind |-> "list", slices |-> variable],
                    VocabArgs(vi.new_vocab, vi.new_vocab_size,
                              s.ckpt_to_initialize_from, vi.old_vocab,
                              vi.old_vocab_size, vi.num_oov_buckets,
                              prev_var_name, vi.backup_initializer))
             ELSE st
      lg1 == IF TakesVocabBranch(s, var_name)
             THEN Logged(lg, [var |-> var_name, mode |-> "vocab", prev |-> shown], st1)
             ELSE lg
      plain == st1.err.type = "None" /\ TakesPlainBranch(s, var_name)
      st2 == IF plain
             THEN WarmstartVar(
                    st1,
                    IF Len(variable) = 1
                    THEN [kind |-> "Variable", slices |-> variable]
                    ELSE [kind |-> "list", slices |-> variable],
                    s.ckpt_to_initialize_from, prev_var_name)
             ELSE st1
      lg2 == IF plain
             THEN Logged(lg1, [var |-> var_name, mode |-> "plain", prev |-> shown], st2)
             ELSE lg1
  IN  [initval |-> st2.initval, nsets |-> st2.nsets,
       err |-> IF st2.err.type = "None" THEN st2.err
               ELSE [st2.err EXCEPT !.var = var_name],
       log |-> lg2]

\* Mutant of AfterIteration: the exception is swallowed, the loop goes on.
AfterIteration_SkipAndContinue(errtype, remaining) ==
  IF remaining = {} THEN "done" ELSE "running"

\* Where _warmstart is after an iteration: an exception leaves the function
\* (nothing catches it), otherwise the loop goes on until the dict is spent.
AfterIteration(errtype, remaining) ==
  IF errtype # "None" THEN "failed"
  ELSE IF remaining = {} THEN "done" ELSE "running"

---------------------------------------------------------------------------
(* The model's graph, checkpoint and vocabulary files *)

Variable(vname, name, offset, rows, full_rows, sliced) ==
  [vname |-> vname, name |-> name, offset |-> offset, rows |-> rows,
   full_rows |-> full_rows, sliced |-> sliced]

\* An embedding in two row partitions, and two unpartitioned variables.
EstimatorGraph ==
  << Variable("emb/part_0", "emb", 0, 2, 4, TRUE),
     Variable("emb/part_1", "emb", 2, 2, 4, TRUE),
     Variable("lin", "lin", 0, 2, 2, FALSE),
     Variable("bias", "bias", 0, 1, 1, FALSE) >>

\* The previous model: vocabulary a, b, c and one OOV bucket.
EstimatorCkpt ==
  [t \in {"emb", "old_emb", "lin", "bias", "old_bias"} |->
     CASE t = "emb" -> <<11, 12, 13, 14>>
       [] t = "old_emb" -> <<21, 22, 23, 24>>
       [] t = "lin" -> <<31, 32>>
       [] t = "bias" -> <<41>>
       [] t = "old_bias" -> <<51>>]

EstimatorFiles ==
  [f \in {"old.txt", "new.txt"} |->
     IF f = "old.txt" THEN <<"a", "b", "c">> ELSE <<"c", "a", "d">>]

\* Maps from a subset of the keys to a value of each key's choices.
Maps(choices) ==
  UNION {[K -> UNION {choices[k] : k \in K}] : K \in SUBSET DOMAIN choices}

PartialMaps(choices) ==
  {m \in Maps(choices) : \A k \in DOMAIN m : m[k] \in choices[k]}

EmbVocabInfos ==
  { VocabInfo("new.txt", 3, 1, "old.txt", DefaultOldVocabSize, NoneVal),
    VocabInfo("new.txt", 3, 1, "old.txt", 2, "init"),
    VocabInfo("new.txt", 0, 1, "old.txt", DefaultOldVocabSize, NoneVal),
    VocabInfo("", 3, 1, "old.txt", DefaultOldVocabSize, NoneVal) }

LinVocabInfos ==
  { VocabInfo("new.txt", 2, 0, "old.txt", 2, NoneVal),
    VocabInfo("new.txt", 2, 0, "", DefaultOldVocabSize, NoneVal) }

\* The values drawn for a key: a _VocabInfo, or None.
VocabInfoChoices ==
  [n \in {"emb", "lin"} |->
     (IF n = "emb" THEN EmbVocabInfos ELSE LinVocabInfos) \cup {NoneVocabInfo}]

PrevNameChoices ==
  [n \in {"emb", "lin", "bias"} |->
     CASE n = "emb" -> {"old_emb"}
       [] n = "lin" -> {"gone"}
       [] n = "bias" -> {"old_bias"}]

Selectors == {NoneVal, ".*", "", "emb", "lin", "emb/part_1"}

CkptArgs == {"ckpt", "", NoneVal, "nockpt"}

FreshInit == [v \in 1..Len(EstimatorGraph) |-> DefaultInit]
FreshSets == [v \in 1..Len(EstimatorGraph) |-> 0]
NoVar == [kind |-> "other", slices |-> << >>]
NoArgs == VocabArgs("", 0, "", "", DefaultOldVocabSize, 0, NoneVal, NoneVal)
NoCall == [fn |-> "none", var |-> NoVar, a |-> NoArgs]

---------------------------------------------------------------------------
(* Specification of the warm-start pass *)

Init ==
  /\ pc = "start"
  /\ files = EstimatorFiles
  /\ ckpt = EstimatorCkpt
  /\ graph = EstimatorGraph
  /\ settings = NoSettings
  /\ grouped = << >>
  /\ todo = {}
  /\ initval = FreshInit
  /\ nsets = FreshSets
  /\ err = NoErr
  /\ log = << >>
  /\ call = NoCall

\* settings = _WarmStartSettings(...)
Construct ==
  /\ pc = "start"
  /\ \E c \in CkptArgs, sel \in Selectors,
        vocab \in PartialMaps(VocabInfoChoices),
        prev \in PartialMaps(PrevNameChoices) :
       LET r == NewWarmStartSettings(c, sel, vocab, prev)
       IN  /\ settings' = r.value
           /\ err' = [type |-> r.err, var |-> ""]
           /\ pc' = IF r.err = "None" THEN "ready" ELSE "rejected"
  /\ UNCHANGED <<files, ckpt, graph, grouped, todo, initval, nsets, log, call>>

\* _warmstart(settings), up to the second loop.
WarmstartBegin ==
  /\ pc = "ready"
  /\ grouped' = GroupedVariables(settings.vars_to_warmstart)
  /\ todo' = DOMAIN grouped'
  /\ pc' = IF todo' = {} THEN "done" ELSE "running"
  /\ UNCHANGED <<files, ckpt, graph, settings, initval, nsets, err, log, call>>

\* One iteration of the second loop; the dict's iteration order is free.
WarmstartNext ==
  /\ pc = "running"
  /\ \E var_name \in todo :
       LET r == WarmstartIteration(settings, var_name, grouped[var_name],
                                   [initval |-> initval, nsets |-> nsets, err |-> err],
                                   log)
       IN  /\ initval' = r.initval
           /\ nsets' = r.nsets
           /\ err' = r.err
           /\ log' = r.log
           /\ todo' = todo \ {var_name}
           /\ pc' = AfterIteration(r.err.type, todo')
  /\ UNCHANGED <<files, ckpt, graph, settings, grouped, call>>

Next == Construct \/ WarmstartBegin \/ WarmstartNext

Spec == Init /\ [][Next]_vars

---------------------------------------------------------------------------
(* Properties of the warm-start pass (specification Spec) *)

Sel == settings.vars_to_warmstart

SlicesOf(n) == {v \in 1..Len(graph) : graph[v].name = n}

LogLines(n) == {i \in 1..Len(log) : log[i].var = n}

\* A vocab_info entry that names both vocabulary files and a size.
WellFormed(vi) ==
  Truthy(vi.new_vocab) /\ vi.new_vocab_size # 0 /\ Truthy(vi.old_vocab)

\* C1 as stated: after a pass that completed, every variable whose logical
\* name has a well-formed vocab_info entry (a _VocabInfo, not None) has been
\* warm-started by vocabulary remapping, whatever vars_to_warmstart is.
C1_AnySelector ==
  pc = "done" =>
    \A v \in 1..Len(graph) :
      (/\ HasVocabInfo(settings, graph[v].name)
       /\ WellFormed(settings.var_name_to_vocab_info[graph[v].name]))
      => initval[v].mode = "remap"

\* C1 amended: after a pass that completed, a variable whose logical name
\* has a vocab_info entry has been warm-started by vocabulary remapping
\* when vars_to_warmstart is the default ".*", is None, or is a pattern that
\* matches the variable's name; a variable the pattern does not match keeps
\* its default initializer, vocab_info entry or not.
C1_MatchedSelector ==
  pc = "done" =>
    \A v \in 1..Len(graph) :
      /\ (/\ HasVocabInfo(settings, graph[v].name)
          /\ (Sel \in {".*", NoneVal} \/ RegexMatch(Sel, v)))
         => initval[v].mode = "remap" /\ nsets[v] = 1
      /\ (Sel # NoneVal /\ ~RegexMatch(Sel, v)) => initval[v] = DefaultInit

C1_Witness ==
  /\ pc = "done"
  /\ Sel = NoneVal
  /\ DOMAIN settings.var_name_to_vocab_info = {"emb", "lin"}
  /\ \A v \in SlicesOf("emb") \cup SlicesOf("lin") : initval[v].mode = "remap"

\* C2: with vars_to_warmstart = None, a variable without a vocab_info entry
\* (its name is no key of var_name_to_vocab_info, or is a key whose value is
\* None) is never touched: default initializer, no restore, no log line,
\* also when var_name_to_prev_var_name names it.
C2_NoneLeavesPlainUntouched ==
  Sel = NoneVal =>
    \A v \in 1..Len(graph) :
      ~HasVocabInfo(settings, graph[v].name) =>
        /\ initval[v] = DefaultInit
        /\ nsets[v] = 0
        /\ LogLines(graph[v].name) = {}

C2_Witness ==
  /\ pc = "done"
  /\ Sel = NoneVal
  /\ "bias" \in DOMAIN settings.var_name_to_prev_var_name
  /\ initval[4] = DefaultInit
  /\ initval[1].mode = "remap"
  /\ "lin" \in DOMAIN settings.var_name_to_vocab_info
  /\ settings.var_name_to_vocab_info["lin"] = NoneVocabInfo
  /\ initval[3] = DefaultInit

\* The variables _warmstart is to warm-start under the settings.
Selected(v) ==
  /\ v \in GetCollection(Sel)
  /\ (HasVocabInfo(settings, graph[v].name) \/ Truthy(Sel))

\* C6 as stated: an error ends the pass at once, and after the pass either
\* every selected variable has its initial value set or none has.
C6_AllOrNothing ==
  /\ err.type # "None" => pc \in {"failed", "rejected"}
  /\ pc \in {"done", "failed"} =>
       \/ \A v \in 1..Len(graph) : Selected(v) => nsets[v] >= 1
       \/ \A v \in 1..Len(graph) : nsets[v] = 0

\* C6 amended: an error ends the pass at once: no variable later in the
\* iteration is attempted (none of them is logged or set) and nothing is
\* retried.  The pass is not all-or-nothing: the variables handled before
\* the failing one keep the initial values they were given.
C6_AbortKeepsEarlier ==
  /\ err.type # "None" => pc \in {"failed", "rejected"}
  /\ pc = "failed" =>
       /\ err.var \in DOMAIN grouped \ todo
       /\ \A n \in todo :
            /\ LogLines(n) = {}
            /\ \A v \in SlicesOf(n) : initval[v] = DefaultInit /\ nsets[v] = 0
       /\ \A n \in DOMAIN grouped \ (todo \cup {err.var}) :
            \/ \A i \in 1..Len(grouped[n]) :
                 initval[grouped[n][i]].mode # "default" /\ nsets[grouped[n][i]] = 1
            \/ ~HasVocabInfo(settings, n) /\ ~Truthy(Sel)
       /\ \A v \in 1..Len(graph) : nsets[v] <= 1

C6_Witness ==
  /\ pc = "failed"
  /\ todo # {}
  /\ \E v \in 1..Len(graph) : graph[v].name # err.var /\ nsets[v] = 1
  /\ \E v \in 1..Len(graph) : Selected(v) /\ nsets[v] = 0

\* C7: within one pass the initializer of a variable is replaced at most
\* once: a logical name is handled once, in one mode only.
C7_SetAtMostOnce ==
  /\ \A v \in 1..Len(graph) :
       /\ nsets[v] <= 1
       /\ nsets[v] = 0 <=> initval[v] = DefaultInit
  /\ \A n \in DOMAIN grouped :
       /\ Cardinality(LogLines(n)) <= 1
       /\ \A v, w \in SlicesOf(n) :
            (nsets[v] = 1 /\ nsets[w] = 1) => initval[v].mode = initval[w].mode
       /\ \A v \in SlicesOf(n) :
            nsets[v] = 1 =>
              initval[v].mode = IF HasVocabInfo(settings, n) THEN "remap" ELSE "restore"

C7_Witness ==
  /\ pc = "done"
  /\ \A v \in SlicesOf("emb") : initval[v].mode = "remap" /\ nsets[v] = 1
  /\ \A v \in SlicesOf("lin") \cup SlicesOf("bias") :
       initval[v].mode = "restore" /\ nsets[v] = 1

\* C8: every variable whose warm-start is attempted has exactly one log line,
\* written before the attempt: when an attempt fails, the last line names
\* the failing variable.  A variable that is skipped or not reached has none.
C8_LoggedBeforeAttempt ==
  /\ \A n \in DOMAIN grouped :
       Cardinality(LogLines(n)) =
         IF err.var = n \/ \E v \in SlicesOf(n) : nsets[v] > 0 THEN 1 ELSE 0
  /\ \A i \in 1..Len(log) :
       log[i].mode = IF HasVocabInfo(settings, log[i].var) THEN "vocab" ELSE "plain"
  /\ pc = "failed" => log # << >> /\ log[Len(log)].var = err.var

C8_Witness ==
  /\ pc = "failed"
  /\ Len(log) = 3
  /\ log[3].var = err.var
  /\ \A v \in 1..Len(graph) : graph[v].name = err.var => nsets[v] = 0

---------------------------------------------------------------------------
(* Specification of the binder: direct calls of _WarmStartSettings,        *)
(* _warmstart_var and _warmstart_var_with_vocab on a fresh graph           *)

\* Two embeddings of the same full shape in two row partitions each, and an
\* unpartitioned variable.
BinderGraph ==
  << Variable("emb/part_0", "emb", 0, 2, 4, TRUE),
     Variable("emb/part_1", "emb", 2, 2, 4, TRUE),
     Variable("out/part_0", "out", 0, 2, 4, TRUE),
     Variable("out/part_1", "out", 2, 2, 4, TRUE),
     Variable("lin", "lin", 0, 4, 4, FALSE) >>

BinderCkpt ==
  [t \in {"emb", "out", "lin", "old"} |->
     CASE t = "emb" -> <<11, 12, 13, 14>>
       [] t = "out" -> <<31, 32, 33, 34>>
       [] t = "lin" -> <<41, 42, 43, 44>>
       [] t = "old" -> <<21, 22, 23, 24>>]

\* The `var` arguments drawn: single variables, lists of slices of one
\* variable, a PartitionedVariable, lists mixing variables, something else.
VarArgs ==
  { [kind |-> "Variable", slices |-> <<5>>],
    [kind |-> "Variable", slices |-> <<2>>],
    [kind |-> "list", slices |-> <<1, 2>>],
    [kind |-> "list", slices |-> <<5>>],
    [kind |-> "PartitionedVariable", slices |-> <<3, 4>>],
    [kind |-> "list", slices |-> <<1, 4>>],
    [kind |-> "list", slices |-> <<1, 2, 3>>],
    [kind |-> "list", slices |-> <<2, 5>>],
    NoVar }

InitBind ==
  /\ pc = "idle"
  /\ files = EstimatorFiles
  /\ ckpt = BinderCkpt
  /\ graph = BinderGraph
  /\ settings = NoSettings
  /\ grouped = << >>
  /\ todo = {}
  /\ initval = [v \in 1..Len(BinderGraph) |-> DefaultInit]
  /\ nsets = [v \in 1..Len(BinderGraph) |-> 0]
  /\ err = NoErr
  /\ log = << >>
  /\ call = NoCall

\* _WarmStartSettings(c, sel, vocab, prev)
CallNewSettings ==
  /\ pc = "idle"
  /\ \E c \in CkptArgs, sel \in Selectors,
        vocab \in PartialMaps(VocabInfoChoices),
        prev \in PartialMaps(PrevNameChoices) :
       LET r == NewWarmStartSettings(c, sel, vocab, prev)
       IN  /\ settings' = r.value
           /\ err' = [type |-> r.err, var |-> ""]
           /\ call' = [fn |-> "settings", var |-> NoVar,
                       a |-> [NoArgs EXCEPT !.prev_ckpt = c]]
  /\ pc' = "returned"
  /\ UNCHANGED <<files, ckpt, graph, grouped, todo, initval, nsets, log>>

\* _warmstart_var_with_vocab(var, ...)
CallWarmstartVarWithVocab ==
  /\ pc = "idle"
  /\ \E var \in VarArgs,
        current_vocab_path \in {"new.txt", "", NoneVal},
        current_vocab_size \in {3, 0},
        prev_ckpt \in {"ckpt", "", "nockpt"},
        prev_vocab_path \in {"old.txt", ""},
        previous_vocab_size \in {DefaultOldVocabSize, 2},
        prev_tensor_name \in {NoneVal, "old"},
        initializer \in {NoneVal, "init"} :
       LET a == VocabArgs(current_vocab_path, current_vocab_size, prev_ckpt,
                          prev_vocab_path, previous_vocab_size, 1,
                          prev_tensor_name, initializer)
           r == WarmstartVarWithVocab(
                  [initval |-> initval, nsets |-> nsets, err |-> err], var, a)
       IN  /\ initval' = r.initval
           /\ nsets' = r.nsets
           /\ err' = r.err
           /\ call' = [fn |-> "vocab", var |-> var, a |-> a]
  /\ pc' = "returned"
  /\ UNCHANGED <<files, ckpt, graph, settings, grouped, todo, log>>

\* _warmstart_var(var, prev_ckpt, prev_tensor_name)
CallWarmstartVar ==
  /\ pc = "idle"
  /\ \E var \in VarArgs,
        prev_ckpt \in {"ckpt", "nockpt"},
        prev_tensor_name \in {NoneVal, "old", "gone"} :
       LET r == WarmstartVar(
                  [initval |-> initval, nsets |-> nsets, err |-> err],
                  var, prev_ckpt, prev_tensor_name)
       IN  /\ initval' = r.initval
           /\ nsets' = r.nsets
           /\ err' = r.err
           /\ call' = [fn |-> "plain", var |-> var,
                       a |-> [NoArgs EXCEPT !.prev_ckpt = prev_ckpt,
                                            !.prev_tensor_name = prev_tensor_name]]
  /\ pc' = "returned"
  /\ UNCHANGED <<files, ckpt, graph, settings, grouped, todo, log>>

NextBind == CallNewSettings \/ CallWarmstartVarWithVocab \/ CallWarmstartVar

SpecBind == InitBind /\ [][NextBind]_vars

---------------------------------------------------------------------------
(* Properties of the binder (specification SpecBind) *)

Untouched == \A v \in 1..Len(graph) : initval[v] = DefaultInit /\ nsets[v] = 0

\* One of the four required arguments of _warmstart_var_with_vocab is
\* missing (None, empty or zero).
RequiredArgMissing(a) ==
  \/ a.current_vocab_path \in {NoneVal, ""}
  \/ a.current_vocab_size = 0
  \/ a.prev_ckpt \in {NoneVal, ""}
  \/ a.prev_vocab_path \in {NoneVal, ""}

\* C9: _WarmStartSettings without a checkpoint raises ValueError and builds
\* no settings (with one it builds them); _warmstart_var_with_vocab with one
\* of its four required arguments missing raises ValueError and leaves every
\* variable's initializer as it was.
C9_InvalidConfigRejected ==
  /\ (pc = "returned" /\ call.fn = "settings") =>
       /\ err.type = IF call.a.prev_ckpt \in {NoneVal, ""} THEN "ValueError" ELSE "None"
       /\ call.a.prev_ckpt \in {NoneVal, ""} => settings = NoSettings
       /\ call.a.prev_ckpt \notin {NoneVal, ""} =>
            settings.ckpt_to_initialize_from = call.a.prev_ckpt
       /\ Untouched
  /\ (pc = "returned" /\ call.fn = "vocab" /\ RequiredArgMissing(call.a)) =>
       err.type = "ValueError" /\ Untouched

C9_Witness ==
  /\ pc = "returned"
  /\ call.fn = "vocab"
  /\ call.var = [kind |-> "list", slices |-> <<1, 2>>]
  /\ call.a.current_vocab_size = 0
  /\ call.a.current_vocab_path = "new.txt"
  /\ call.a.prev_ckpt = "ckpt"
  /\ call.a.prev_vocab_path = "old.txt"
  /\ err.type = "ValueError"
  /\ Untouched

\* The variables of a list do not all belong to one logical variable.
Inconsistent(var) ==
  /\ var.kind = "list"
  /\ \E i, j \in 1..Len(var.slices) :
       graph[var.slices[i]].name # graph[var.slices[j]].name

\* C10: binding a list of variables that are not slices of one logical
\* variable raises TypeError and sets no initializer, in _warmstart_var and
\* in _warmstart_var_with_vocab (called with its required arguments), with
\* or without prev_tensor_name.
C10_InconsistentSlicesRejected ==
  (/\ pc = "returned"
   /\ call.fn \in {"plain", "vocab"}
   /\ Inconsistent(call.var)
   /\ call.fn = "vocab" => ~RequiredArgMissing(call.a))
  => err.type = "TypeError" /\ Untouched

---------------------------------------------------------------------------
(* Specification of the remapping: the warm-start pass over two variables  *)
(* backed by the same vocabulary, one unpartitioned (w) and one in row     *)
(* partitions split at row k (p), for drawn old and new vocabularies.      *)
(* Row i of the old matrix holds the value i.                              *)

\* Sequences of tokens of T of length 1..n: the old vocabulary files (a
\* token may be repeated).
TokenSeqs(T, n) == UNION {[1..l -> T] : l \in 1..n}

\* Those without a repeated token: the new model's vocabulary.
DistinctTokenSeqs(T, n) ==
  {q \in TokenSeqs(T, n) : \A i, j \in 1..Len(q) : q[i] = q[j] => i = j}

RemapGraph(rows, k) ==
  IF k = rows
  THEN << Variable("w", "w", 0, rows, rows, FALSE),
          Variable("p/part_0", "p", 0, rows, rows, TRUE) >>
  ELSE << Variable("w", "w", 0, rows, rows, FALSE),
          Variable("p/part_0", "p", 0, k, rows, TRUE),
          Variable("p/part_1", "p", k, rows - k, rows, TRUE) >>

RemapState(old, new, vi, k) ==
  /\ pc = "ready"
  /\ files = [f \in {"old.txt", "new.txt"} |-> IF f = "old.txt" THEN old ELSE new]
  /\ ckpt = [t \in {"w", "p"} |-> [i \in 1..(Len(old) + 1) |-> i]]
  /\ graph = RemapGraph(vi.new_vocab_size + vi.num_oov_buckets, k)
  /\ settings = NewWarmStartSettings("ckpt", ".*", [n \in {"w", "p"} |-> vi],
                                     << >>).value
  /\ grouped = << >>
  /\ todo = {}
  /\ initval = [v \in 1..Len(graph) |-> DefaultInit]
  /\ nsets = [v \in 1..Len(graph) |-> 0]
  /\ err = NoErr
  /\ log = << >>
  /\ call = NoCall

InitRemap ==
  \/ \E old \in TokenSeqs(OldTokens, MaxVocabLen),
          new \in DistinctTokenSeqs(NewTokens, MaxVocabLen) :
       \E size \in 1..Len(new), oov \in 0..MaxOov,
          old_size \in {DefaultOldVocabSize} \cup 1..Len(old),
          backup \in {NoneVal, "init"} :
         \E k \in 1..(size + oov) :
           RemapState(old, new,
                      VocabInfo("new.txt", size, oov, "old.txt", old_size, backup), k)
  \/ \E k \in 1..4 :
       RemapState(<<"a", "b", "c">>, <<"c", "a", "d">>,
                  VocabInfo("new.txt", 3, 1, "old.txt", DefaultOldVocabSize, NoneVal),
                  k)

NextRemap == WarmstartBegin \/ WarmstartNext

SpecRemap == InitRemap /\ [][NextRemap]_vars

---------------------------------------------------------------------------
(* Properties of the remapping (specification SpecRemap) *)

OldFile == files["old.txt"]
NewFile == files["new.txt"]

\* The initial value of logical variable n: its slices' values in offset order.
ValueOf(n) == Concat([i \in 1..Len(grouped[n]) |-> initval[grouped[n][i]].val])

\* Positions (from 1) of the old vocabulary file that hold token t, among
\* its first cap positions, or among all of them when cap is -1.
OldPositions(t, cap) ==
  {i \in 1..Len(OldFile) : OldFile[i] = t /\ (cap = -1 \/ i <= cap)}

Least(S) == CHOOSE x \in S : \A y \in S : x <= y

\* C3: after the pass, the matrix of a vocabulary-backed variable has
\* new_vocab_size + num_oov_buckets rows; row j is the old matrix row at the
\* first position of new token j in the old vocabulary (as old_vocab_size
\* limits it) when the token is there, and the backup initializer's value
\* (zero when there is none) when it is not or j is an OOV bucket.
C3_RowsFollowTokens ==
  pc = "done" =>
    \A n \in DOMAIN grouped :
      LET vi == settings.var_name_to_vocab_info[n]
          backup == IF vi.backup_initializer = NoneVal THEN 0 ELSE 7
      IN  /\ Len(ValueOf(n)) = vi.new_vocab_size + vi.num_oov_buckets
          /\ \A j \in 1..Len(ValueOf(n)) :
               LET P == IF j <= vi.new_vocab_size
                        THEN OldPositions(NewFile[j], vi.old_vocab_size) ELSE {}
               IN  ValueOf(n)[j] = IF P # {} THEN ckpt[n][Least(P)] ELSE backup

\* Old a, b, c with rows 1, 2, 3; new c, a, d; one OOV bucket; no backup.
C3_Witness ==
  /\ pc = "done"
  /\ OldFile = <<"a", "b", "c">>
  /\ NewFile = <<"c", "a", "d">>
  /\ ValueOf("w") = <<3, 1, 0, 0>>
  /\ ValueOf("p") = <<3, 1, 0, 0>>

\* C4: with old_vocab_size = -1 a new token found anywhere in the old
\* vocabulary file gets the old row of its first position; with
\* old_vocab_size = N it gets that row only when the position is among the
\* first N, and the backup value when the token occurs only further down.
C4_OldVocabSizeTruncates ==
  pc = "done" =>
    \A n \in DOMAIN grouped :
      LET vi == settings.var_name_to_vocab_info[n]
          backup == IF vi.backup_initializer = NoneVal THEN 0 ELSE 7
      IN  \A j \in 1..vi.new_vocab_size :
            LET P == OldPositions(NewFile[j], -1)
            IN  P # {} =>
                  ValueOf(n)[j] =
                    IF vi.old_vocab_size = -1 \/ Least(P) <= vi.old_vocab_size
                    THEN ckpt[n][Least(P)] ELSE backup

C4_Witness ==
  /\ pc = "done"
  /\ OldFile = <<"a", "b", "b">>
  /\ NewFile = <<"b", "a">>
  /\ settings.var_name_to_vocab_info["w"].old_vocab_size = 1
  /\ settings.var_name_to_vocab_info["w"].backup_initializer = "init"
  /\ settings.var_name_to_vocab_info["w"].num_oov_buckets = 0
  /\ ValueOf("w") = <<7, 1>>

\* C5: after the pass, each partition of p holds the rows of its own offset
\* window of the matrix the unpartitioned w was given in one pass, so the
\* partitions put together in offset order are that matrix.
C5_PartitionsMatchWhole ==
  pc = "done" =>
    /\ ValueOf("p") = initval[1].val
    /\ \A i \in 1..Len(grouped["p"]) :
         LET v == grouped["p"][i]
         IN  initval[v].val =
               SubSeq(initval[1].val, graph[v].offset + 1,
                      graph[v].offset + graph[v].rows)

\* Partitions [0,2) and [2,4) of the four rows 3, 1, 0, 0.
C5_Witness ==
  /\ pc = "done"
  /\ Len(graph) = 3
  /\ graph[2].offset = 0 /\ graph[2].rows = 2
  /\ graph[3].offset = 2 /\ graph[3].rows = 2
  /\ initval[1] = [mode |-> "remap", val |-> <<3, 1, 0, 0>>]
  /\ initval[2] = [mode |-> "remap", val |-> <<3, 1>>]
  /\ initval[3] = [mode |-> "remap", val |-> <<0, 0>>]

====
